---- MODULE Spec2Model ----
(***************************************************************************)
(* Model of gs/Planilha.js (first script, lines 1-610): the credential     *)
(* validation of form responses, the validation ledger                     *)
(* ('validacao_automatica'), the tally ('Apuracao') and the trigger        *)
(* handlers that chain them.                                               *)
(*                                                                         *)
(* Cell texts that the code splits, trims or joins are sequences of        *)
(* character tokens ("NL" is the newline); keys, secrets and status        *)
(* strings are atomic strings.  Accents of the status strings are dropped. *)
(***************************************************************************)
EXTENDS Integers, Sequences, FiniteSets, TLC

VARIABLES MK, QTD, keys, resp, val, tally, ex, cls, hist, probe, fiscalCol,
          credCol

vars == <<MK, QTD, keys, resp, val, tally, ex, cls, hist, probe, fiscalCol, credCol>>

-----------------------------------------------------------------------------
(* Bounds of the model *)

\* response rows the form funnel appends
MaxRows == 3
\* rows of the credential registry 'chaves_publicas'
MaxKeys == 2
\* registry changes and manual/flag signals in one behaviour
MaxSignals == 1
\* the same two bounds where executions overlap
MaxConcRows == 2
MaxConcSignals == 1

-----------------------------------------------------------------------------
(* Texts *)

WS == {" ", "NL"}

RECURSIVE trimStart(_)
trimStart(t) ==
  IF t = <<>> THEN <<>>
  ELSE IF Head(t) \in WS THEN trimStart(Tail(t)) ELSE t

RECURSIVE trimEnd(_)
trimEnd(t) ==
  IF t = <<>> THEN <<>>
  ELSE IF t[Len(t)] \in WS THEN trimEnd(SubSeq(t, 1, Len(t) - 1)) ELSE t

\* String.prototype.trim
trim(t) == trimEnd(trimStart(t))

\* String(id || '').trim().replace(/^'/, '')
normalizeId(id) ==
  LET t == trim(id)
  IN  IF t # <<>> /\ Head(t) = "'" THEN Tail(t) ELSE t

\* a key argument that is null or undefined
UndefinedKey == "undefined-value"

\* !x of a key argument
falsy(x) == x \in {"", UndefinedKey}

\* calculatePubKey without its guard
calculatePubKeyNoGuard(privKey, masterKey) ==
  "H(" \o privKey \o "," \o masterKey \o ")"

\* HMAC-SHA256 rendered as hex: an injective tag of (message, key)
calculatePubKey(privKey, masterKey) ==
  IF falsy(privKey) \/ falsy(masterKey) THEN ""
  ELSE "H(" \o privKey \o "," \o masterKey \o ")"

\* the bytes of an HMAC-SHA256 signature
DigestLength == 32

HexDigits == <<"0", "1", "2", "3", "4", "5", "6", "7",
               "8", "9", "a", "b", "c", "d", "e", "f">>

\* Number.prototype.toString(16) of 0..255
toString16(n) ==
  IF n < 16 THEN <<HexDigits[n + 1]>>
  ELSE <<HexDigits[(n \div 16) + 1], HexDigits[(n % 16) + 1]>>

\* the rendering of a byte without the '0' prefix and the slice
hexByteNoPad(byte) == toString16(byte % 256)

\* ('0' + (byte & 0xff).toString(16)).slice(-2), byte in -128..127
hexByte(byte) ==
  LET str == <<"0">> \o toString16(byte % 256)
  IN  SubSeq(str, Len(str) - 1, Len(str))

\* bytes.map(...).join('')
RECURSIVE hexOfBytes(_)
hexOfBytes(bytes) ==
  IF bytes = <<>> THEN <<>> ELSE hexByte(Head(bytes)) \o hexOfBytes(Tail(bytes))

\* the text calculatePubKey returns when computeHmacSha256Signature returns
\* the bytes signature
pubKeyText(privKey, masterKey, signature) ==
  IF falsy(privKey) \/ falsy(masterKey) THEN <<>> ELSE hexOfBytes(signature)

\* split(/,\n|,/g): the pieces between commas, a newline right after a comma
\* belonging to the separator
RECURSIVE splitComma(_, _)
splitComma(t, cur) ==
  IF t = <<>> THEN <<cur>>
  ELSE IF Head(t) = ","
       THEN LET rest == Tail(t)
                r2 == IF rest # <<>> /\ Head(rest) = "NL" THEN Tail(rest) ELSE rest
            IN  <<cur>> \o splitComma(r2, <<>>)
       ELSE splitComma(Tail(t), Append(cur, Head(t)))

NonEmptyText(t) == t # <<>>

mapTrim(s) == [i \in 1..Len(s) |-> trim(s[i])]

parseVotos(voteString) ==
  IF voteString = <<>> THEN <<>>
  ELSE SelectSeq(mapTrim(splitComma(voteString, <<>>)), NonEmptyText)

\* fiscalRaw.replace(/, /g, ',\n')
RECURSIVE replaceCommaSpace(_)
replaceCommaSpace(t) ==
  IF t = <<>> THEN <<>>
  ELSE IF Head(t) = "," /\ Len(t) >= 2 /\ t[2] = " "
       THEN <<",", "NL">> \o replaceCommaSpace(Tail(Tail(t)))
       ELSE <<Head(t)>> \o replaceCommaSpace(Tail(t))

\* Array.from(new Set(arr)): first occurrences, in order
RECURSIVE dedupe(_, _)
dedupe(arr, seen) ==
  IF arr = <<>> THEN <<>>
  ELSE IF Head(arr) \in seen THEN dedupe(Tail(arr), seen)
       ELSE <<Head(arr)>> \o dedupe(Tail(arr), seen \cup {Head(arr)})

\* arr.join(',\n')
RECURSIVE joinCommaNL(_)
joinCommaNL(arr) ==
  IF arr = <<>> THEN <<>>
  ELSE IF Len(arr) = 1 THEN arr[1]
       ELSE arr[1] \o <<",", "NL">> \o joinCommaNL(Tail(arr))

-----------------------------------------------------------------------------
(* Status strings *)

ST_VALID    == "Validas"
ST_UNKNOWN  == "Invalidas - ID Incorreto"
ST_WRONG    == "Invalidas - Chave Privada Incorreta"
ST_REVOKED  == "Invalidas - Chave Privada Inativada"
ST_ERROR    == "Invalidas - Erro Interno (MK (Master Key) nao configurada em ScriptProperties. Abortando.)"

APURACAO_STATUS == "VALIDO - Credenciais Validas - Voto Valido"
FS_BLANK        == "INVALIDO - Credenciais Validas - Voto Branco"
FS_DUPLICATE    == "INVALIDO - Credenciais Validas - Voto Repetido"
FS_CRED(credStatus) == "INVALIDO - Credenciais " \o credStatus

-----------------------------------------------------------------------------
(* Credential registry *)

\* row[2] === true || String(row[2]).toLowerCase().trim() === 'true'
isActiveCell(c) == c \in {"TRUE", "true", " True "}

NoKey == [present |-> FALSE, pub_key |-> "", is_active |-> FALSE]

keyRowsOf(rows, idKey) ==
  {i \in 1..Len(rows) : normalizeId(rows[i].id) = idKey}

\* getKeysMap called with onlyActive set: the inactive rows are left out
getKeysMapOnlyActive(rows, idKey) ==
  LET I == {i \in keyRowsOf(rows, idKey) : isActiveCell(rows[i].act)}
  IN  IF idKey = <<>> \/ I = {} THEN NoKey
      ELSE LET i == CHOOSE j \in I : \A k \in I : k <= j
           IN  [present |-> TRUE, pub_key |-> rows[i].pub, is_active |-> TRUE]

\* the map built by getKeysMap(false), read at id: a later row of the same id
\* overwrites an earlier one; rows with an empty id are skipped
getKeysMap(rows, idKey) ==
  LET I == keyRowsOf(rows, idKey)
  IN  IF idKey = <<>> \/ I = {} THEN NoKey
      ELSE LET i == CHOOSE j \in I : \A k \in I : k <= j
           IN  [present |-> TRUE, pub_key |-> rows[i].pub,
                is_active |-> isActiveCell(rows[i].act)]

\* the if-nest of processResponse_ and revalidateAllVotes
classifyNoActive(keyData, pub) ==
  IF keyData.present
  THEN IF keyData.pub_key = pub THEN ST_VALID ELSE ST_WRONG
  ELSE ST_UNKNOWN

classify(keyData, pub) ==
  IF keyData.present
  THEN IF keyData.pub_key = pub
       THEN IF keyData.is_active THEN ST_VALID ELSE ST_REVOKED
       ELSE ST_WRONG
  ELSE ST_UNKNOWN

-----------------------------------------------------------------------------
(* generateValidationSheet: the rows of 'validacao_automatica' *)

counterOf(validContentCounter, userId) ==
  IF userId \in DOMAIN validContentCounter THEN validContentCounter[userId] ELSE 0

\* the exec columns IDX_EXEC_START..IDX_EXEC_END, trimmed, empty cells dropped
execVotosOf(row) == SelectSeq(mapTrim(row.exec), NonEmptyText)

fiscalRawOf(row) == trim(row.fiscal)

hasContent(row) == Len(execVotosOf(row)) > 0 \/ fiscalRawOf(row) # <<>>

finalPreenchimento(row) == IF hasContent(row) THEN "Valido" ELSE "Branco"

finalStatusAnyCount(credStatus, preenchimento, contador) ==
  IF credStatus # ST_VALID THEN FS_CRED(credStatus)
  ELSE IF preenchimento = "Branco" THEN FS_BLANK
  ELSE IF contador >= 1 THEN APURACAO_STATUS
  ELSE FS_DUPLICATE

finalStatusOf(credStatus, preenchimento, contador) ==
  IF credStatus # ST_VALID THEN FS_CRED(credStatus)
  ELSE IF preenchimento = "Branco" THEN FS_BLANK
  ELSE IF contador = 1 THEN APURACAO_STATUS
  ELSE FS_DUPLICATE

\* what the ledger keeps of the ballot: only a countable row keeps its names
execStrKeepAll(row, finalStatus) == joinCommaNL(dedupe(execVotosOf(row), {}))

execStrNoDedupe(row, finalStatus) ==
  IF finalStatus = APURACAO_STATUS
  THEN joinCommaNL(execVotosOf(row))
  ELSE <<>>

execStrOf(row, finalStatus) ==
  IF finalStatus = APURACAO_STATUS
  THEN joinCommaNL(dedupe(execVotosOf(row), {}))
  ELSE <<>>

fiscalStrKeepAll(row, finalStatus) == replaceCommaSpace(fiscalRawOf(row))

fiscalStrOf(row, finalStatus) ==
  IF finalStatus = APURACAO_STATUS
  THEN replaceCommaSpace(fiscalRawOf(row))
  ELSE <<>>

\* one pass of the loop body for a row with a non-empty id
validatedRowCountsBlank(row, userId, validContentCounter) ==
  LET credStatus   == row.cred
      voto         == finalPreenchimento(row)
      contador     == IF credStatus = ST_VALID
                      THEN counterOf(validContentCounter, userId) + 1
                      ELSE 0
      finalStatus  == finalStatusOf(credStatus, voto, contador)
  IN  [ts |-> row.ts, id |-> userId, pub |-> row.key, cred |-> credStatus,
       voto |-> voto, contador |-> contador, final |-> finalStatus,
       execStr |-> execStrOf(row, finalStatus),
       fiscalStr |-> fiscalStrOf(row, finalStatus)]

validatedRow(row, userId, validContentCounter) ==
  LET credStatus   == row.cred
      voto         == finalPreenchimento(row)
      isCountable  == credStatus = ST_VALID /\ voto = "Valido"
      contador     == IF isCountable
                      THEN counterOf(validContentCounter, userId) + 1
                      ELSE 0
      finalStatus  == finalStatusOf(credStatus, voto, contador)
  IN  [ts |-> row.ts, id |-> userId, pub |-> row.key, cred |-> credStatus,
       voto |-> voto, contador |-> contador, final |-> finalStatus,
       execStr |-> execStrOf(row, finalStatus),
       fiscalStr |-> fiscalStrOf(row, finalStatus)]

bumpCounter(validContentCounter, userId, r) ==
  IF r.contador = 0 THEN validContentCounter
  ELSE [u \in DOMAIN validContentCounter \cup {userId} |->
          IF u = userId THEN r.contador ELSE validContentCounter[u]]

\* the loop over allData; a row whose id is empty is skipped
RECURSIVE validationResults(_, _)
validationResults(allData, validContentCounter) ==
  IF allData = <<>> THEN <<>>
  ELSE LET row    == Head(allData)
           userId == normalizeId(trim(row.id))
       IN  IF userId = <<>>
           THEN validationResults(Tail(allData), validContentCounter)
           ELSE LET r == validatedRow(row, userId, validContentCounter)
                IN  <<r>> \o validationResults(Tail(allData),
                                bumpCounter(validContentCounter, userId, r))

\* setValues on the range (2, 1, results.length, 9): rows below it stay
overwriteRows(sheet, results) ==
  [i \in 1..(IF Len(sheet) > Len(results) THEN Len(sheet) ELSE Len(results)) |->
     IF i <= Len(results) THEN results[i] ELSE sheet[i]]

-----------------------------------------------------------------------------
(* generateApuracaoAutomatica: the tables of 'Apuracao' *)

\* position columns of the placeholder table when no maximum is configured
DefaultPositions == 3

RECURSIVE SumSeq(_)
SumSeq(s) == IF s = <<>> THEN 0 ELSE Head(s) + SumSeq(Tail(s))

\* a.localeCompare(b, 'pt-BR') < 0 on the characters of the model
charRank(c) ==
  CASE c = " " -> 0 [] c = "NL" -> 0 [] c = "'" -> 1 [] c = ";" -> 2
    [] c = "A" -> 11 [] c = "B" -> 12 [] c = "C" -> 13 [] c = "X" -> 14
    [] c = "Y" -> 15 [] OTHER -> 20

RECURSIVE nameBefore(_, _)
nameBefore(a, b) ==
  IF b = <<>> THEN FALSE
  ELSE IF a = <<>> THEN TRUE
  ELSE IF charRank(Head(a)) # charRank(Head(b))
       THEN charRank(Head(a)) < charRank(Head(b))
       ELSE nameBefore(Tail(a), Tail(b))

\* the elements of S in the order Before, a strict total order on S
SortedSeq(S, Before(_, _)) ==
  [k \in 1..Cardinality(S) |->
     CHOOSE x \in S : Cardinality({y \in S : Before(y, x)}) = k - 1]

namesIn(ballots) == UNION {{b[i] : i \in 1..Len(b)} : b \in {ballots[k] : k \in 1..Len(ballots)}}

isCounted(row) == row.final = APURACAO_STATUS

countedRows(validationData) == SelectSeq(validationData, isCounted)

pontosGanhos(N_BORDA, i) == N_BORDA - i

pontosOf(ballots, cand, N_BORDA) ==
  SumSeq([k \in 1..Len(ballots) |->
            SumSeq([i \in 1..Len(ballots[k]) |->
                      IF ballots[k][i] = cand THEN pontosGanhos(N_BORDA, i - 1) ELSE 0])])

posCountsOf(ballots, cand, npos) ==
  [p \in 1..npos |->
     SumSeq([k \in 1..Len(ballots) |->
               IF p <= Len(ballots[k]) /\ ballots[k][p] = cand THEN 1 ELSE 0])]

votosOf(ballots, cand) ==
  SumSeq([k \in 1..Len(ballots) |->
            SumSeq([i \in 1..Len(ballots[k]) |->
                      IF ballots[k][i] = cand THEN 1 ELSE 0])])

RECURSIVE countsAfter(_, _)
\* a's per-position counts are lexicographically larger than b's
countsAfter(a, b) ==
  IF a = <<>> \/ b = <<>> THEN FALSE
  ELSE IF Head(a) # Head(b) THEN Head(a) > Head(b)
       ELSE countsAfter(Tail(a), Tail(b))

\* the comparator of execRows.sort
execBefore(a, b) ==
  IF a.pontos # b.pontos THEN a.pontos > b.pontos
  ELSE IF a.posCounts # b.posCounts THEN countsAfter(a.posCounts, b.posCounts)
  ELSE nameBefore(a.nome, b.nome)

fiscalBeforeByName(a, b) == nameBefore(a.nome, b.nome)

\* the comparator of the fiscal rows' sort
fiscalBefore(a, b) ==
  IF a.votos # b.votos THEN a.votos > b.votos
  ELSE nameBefore(a.nome, b.nome)

emptyTally(npos) == [npos |-> npos, exec |-> <<>>, fiscal |-> <<>>]

configuredMax(qtd) == IF qtd > 0 THEN qtd ELSE 0

tallyOf(validationData, qtd) ==
  IF Len(validationData) = 0
  THEN emptyTally(IF configuredMax(qtd) > 0 THEN configuredMax(qtd) ELSE DefaultPositions)
  ELSE
    LET execAll    == [k \in 1..Len(validationData) |-> parseVotos(validationData[k].execStr)]
        fiscalAll  == [k \in 1..Len(validationData) |-> parseVotos(validationData[k].fiscalStr)]
        execCands  == namesIn(execAll)
        fiscalCands == namesIn(fiscalAll)
        N_VOTOS_VOTADOS == Cardinality(execCands)
        N_BORDA    == IF configuredMax(qtd) = 0 THEN N_VOTOS_VOTADOS ELSE configuredMax(qtd)
        counted    == countedRows(validationData)
        execB      == [k \in 1..Len(counted) |-> parseVotos(counted[k].execStr)]
        fiscalB    == [k \in 1..Len(counted) |-> parseVotos(counted[k].fiscalStr)]
        execRows   == {[nome |-> c, pontos |-> pontosOf(execB, c, N_BORDA),
                        posCounts |-> posCountsOf(execB, c, N_BORDA)] : c \in execCands}
        fiscalRows == {[nome |-> c, votos |-> votosOf(fiscalB, c)] : c \in fiscalCands}
    IN  IF N_VOTOS_VOTADOS = 0 /\ fiscalCands = {}
        THEN emptyTally(N_BORDA)
        ELSE [npos |-> N_BORDA,
              exec |-> SortedSeq(execRows, execBefore),
              fiscal |-> SortedSeq(fiscalRows, fiscalBefore)]

-----------------------------------------------------------------------------
(* The custom functions of the sheet (third script) *)

\* a text argument that is null or undefined
Undefined == <<"undefined">>

\* String.prototype.toUpperCase on one character: sharp s becomes two letters,
\* the dotless i becomes the letter I, an accented letter keeps its accent
toUpperCase(c) ==
  CASE c = "a" -> <<"A">> [] c = "b" -> <<"B">> [] c = "x" -> <<"X">>
    [] c = "e-acute" -> <<"E-acute">>
    [] c = "sharp-s" -> <<"S", "S">>
    [] c = "dotless-i" -> <<"I">>
    [] OTHER -> <<c>>

RECURSIVE upperText(_)
upperText(t) ==
  IF t = <<>> THEN <<>> ELSE toUpperCase(Head(t)) \o upperText(Tail(t))

\* the characters A-Z that occur in the texts of the model
LettersAZ == {"A", "B", "C", "I", "S", "X", "Y"}

isAZ(c) == c \in LettersAZ

notSpace(c) == c \notin WS

\* normalizePrivate_: upper case, whitespace removed, only A-Z kept
normalizePrivate_(text) ==
  IF text = Undefined THEN <<>>
  ELSE SelectSeq(SelectSeq(upperText(text), notSpace), isAZ)

\* normalize('NFD') followed by the removal of the combining marks
stripAccents(t) ==
  [i \in 1..Len(t) |->
     CASE t[i] = "e-acute" -> "e" [] t[i] = "E-acute" -> "E" [] OTHER -> t[i]]

\* replace(/\s+/g, ' ')
RECURSIVE collapseSpaces(_)
collapseSpaces(t) ==
  IF t = <<>> THEN <<>>
  ELSE IF Head(t) \in WS THEN <<" ">> \o collapseSpaces(trimStart(t))
       ELSE <<Head(t)>> \o collapseSpaces(Tail(t))

norm(x) ==
  IF x = Undefined THEN <<>>
  ELSE upperText(collapseSpaces(trim(stripAccents(x))))

RECURSIVE dropNewlines(_)
dropNewlines(t) ==
  IF t # <<>> /\ Head(t) = "NL" THEN dropNewlines(Tail(t)) ELSE t

\* split(/[;,]\s*|\n+/)
RECURSIVE splitList(_, _)
splitList(t, cur) ==
  IF t = <<>> THEN <<cur>>
  ELSE IF Head(t) \in {";", ","}
       THEN <<cur>> \o splitList(trimStart(Tail(t)), <<>>)
  ELSE IF Head(t) = "NL"
       THEN <<cur>> \o splitList(dropNewlines(Tail(t)), <<>>)
  ELSE splitList(Tail(t), Append(cur, Head(t)))

mapNorm(s) == [i \in 1..Len(s) |-> norm(s[i])]

parseList(cell) ==
  IF cell = Undefined \/ cell = <<>> THEN <<>>
  ELSE SelectSeq(mapNorm(splitList(cell, <<>>)), NonEmptyText)

dedupePreserve(arr) == dedupe(arr, {})

\* the official candidates of the range passed to the function; no range is
\* the empty sequence of cells
buildOfficialSet(intervaloCandidatos) ==
  {norm(intervaloCandidatos[i]) : i \in 1..Len(intervaloCandidatos)} \ {<<>>}

resolveUniverse(intervaloCandidatos, celulas) ==
  LET oficialSet == buildOfficialSet(intervaloCandidatos)
      inferido   == namesIn([k \in 1..Len(celulas) |-> parseList(celulas[k])])
  IN  IF oficialSet # {}
      THEN [oficialSet |-> oficialSet, n |-> Cardinality(oficialSet),
            source |-> "oficial"]
      ELSE [oficialSet |-> inferido, n |-> Cardinality(inferido),
            source |-> "inferido"]

\* listaRaw.filter(nm => oficialSet.has(nm))
RECURSIVE keepListed(_, _)
keepListed(arr, S) ==
  IF arr = <<>> THEN <<>>
  ELSE IF Head(arr) \in S THEN <<Head(arr)>> \o keepListed(Tail(arr), S)
       ELSE keepListed(Tail(arr), S)

\* the ballot of a cell with no name filtered out
scorecardBallotUnfiltered(cel, u) == dedupePreserve(parseList(cel))

\* the ballot of a cell: its names, the unlisted ones dropped when the universe
\* is the official one, each name once
scorecardBallot(cel, u) ==
  dedupePreserve(IF u.source = "oficial"
                 THEN keepListed(parseList(cel), u.oficialSet)
                 ELSE parseList(cel))

\* the rows of the table under its header row: the scoring loop and the sort
\* are those of generateApuracaoAutomatica
BORDA_SCORECARD_BY_COLNAME(valores, intervaloCandidatos) ==
  LET u      == resolveUniverse(intervaloCandidatos, valores)
      listas == [k \in 1..Len(valores) |-> scorecardBallot(valores[k], u)]
      stats  == u.oficialSet \cup namesIn(listas)
      rows   == {[nome |-> c, pontos |-> pontosOf(listas, c, u.n),
                  posCounts |-> posCountsOf(listas, c, u.n)] : c \in stats}
  IN  IF u.n = 0 THEN <<>> ELSE SortedSeq(rows, execBefore)

-----------------------------------------------------------------------------
(* Inputs *)

\* the master key the issuer derived the registry's public keys with
IssuerKey == "K"

BallotBlank == [exec |-> << <<>>, <<" ">> >>, fiscal |-> <<>>]
BallotAB    == [exec |-> << <<"A">>, <<"B">> >>, fiscal |-> <<"A", ",", " ", "B">>]
BallotB     == [exec |-> << <<"B">>, <<>> >>, fiscal |-> <<>>]

Sub(id, secret, ballot) == [id |-> id, secret |-> secret, ballot |-> ballot]

\* what a voter may send through the form
Submissions ==
  { Sub(<<"7">>, "s1", BallotAB),
    Sub(<<"'", "7">>, "s1", BallotB),
    Sub(<<"7">>, "s1", BallotBlank),
    Sub(<<"7">>, "s2", BallotB),
    Sub(<<"8">>, "s1", BallotAB),
    Sub(<<>>, "s1", BallotB) }

KeyRow(id, pub, act) == [id |-> id, pub |-> pub, act |-> act]

\* rows the issuer may append to the registry
IssuedRows ==
  { KeyRow(<<"8">>, calculatePubKey("s1", IssuerKey), "TRUE"),
    KeyRow(<<"7">>, calculatePubKey("s2", IssuerKey), "true") }

\* a registry change: a record is deactivated, or a row is appended
RegistryChanges(rows) ==
  { [i \in 1..Len(rows) |-> IF i = k THEN [rows[i] EXCEPT !.act = "FALSE"] ELSE rows[i]] :
      k \in {j \in 1..Len(rows) : isActiveCell(rows[j].act)} }
  \cup
  { Append(rows, r) : r \in {q \in IssuedRows : Len(rows) < MaxKeys} }

ExecIds == {1, 2}

Idle == [pc |-> "idle", kind |-> "none", run |-> 0, during |-> {}, row |-> 0,
         nvId |-> <<>>, nvKey |-> "", updates |-> <<>>, results |-> <<>>,
         table |-> emptyTally(0), again |-> FALSE, snaps |-> {}]

InFlight(e) == ex[e].pc # "idle"

\* 0-based index of the 'Credenciais' column of 'Respostas ao formulario'
IDX_CRED == 3

\* getIndexByColNameCI of the race-2 question in a form of n ranking
\* questions: the questions follow 'Credenciais', race 2 comes last
FiscalColumn(n) == IDX_CRED + 1 + n + 1

\* generateValidationSheet's test of the ranking columns, on the 1-based index
\* of the race-2 header (0 when no header has that name)
columnsInvalid(index) ==
  LET IDX_FISCAL     == index - 1
      IDX_EXEC_START == IDX_CRED + 1
      IDX_EXEC_END   == IDX_FISCAL - 1
  IN  IDX_FISCAL < 0 \/ IDX_EXEC_END < IDX_EXEC_START

\* no function of the scripts has been applied on its own
NoProbe == [fn |-> "none"]

-----------------------------------------------------------------------------
(* Initial state: one issued credential, no response, empty sheets *)

InitWith(mks, qtds) ==
  /\ MK \in mks
  /\ QTD \in qtds
  /\ keys = << KeyRow(<<"7">>, calculatePubKey("s1", IssuerKey), "TRUE") >>
  /\ resp = <<>>
  /\ val = <<>>
  /\ tally = emptyTally(0)
  /\ ex = [e \in ExecIds |-> Idle]
  /\ cls = {}
  /\ hist = [serial |-> 0, signals |-> 0, after |-> [e \in ExecIds |-> 0]]
  /\ probe = NoProbe
  /\ fiscalCol = FiscalColumn(2)
  /\ credCol = IDX_CRED + 1

Init == InitWith({"", IssuerKey}, {0, 1})

-----------------------------------------------------------------------------
(* Trigger handlers: the start of an execution *)

\* execution e is past its first read and before its last write
Midrun(e) ==
  \/ ex[e].kind = "form"
       /\ ex[e].pc \in {"revalidate", "revalidateWrite", "validation",
                        "validationWrite", "tally", "tallyWrite"}
  \/ ex[e].kind \in {"edit", "manual"}
       /\ ex[e].pc \in {"revalidateWrite", "validation", "validationWrite",
                        "tally", "tallyWrite"}
  \/ ex[e].kind = "flag" /\ ex[e].pc = "tallyWrite"

FullRun(e) == ex[e].kind \in {"form", "edit", "manual"}

\* the runs that are under way when a trigger fires
RunsInFlight == {ex[f].run : f \in {g \in ExecIds : Midrun(g)}}

\* the last run started was a full run and is over, as is every other run
LastRunFull ==
  /\ \A f \in ExecIds : ex[f].pc = "idle"
  /\ \E f \in ExecIds : FullRun(f) /\ ex[f].run = hist.serial

Start(e, kind, pc, row, sub) ==
  /\ ex' = [ex EXCEPT ![e] = [Idle EXCEPT !.pc = pc, !.kind = kind,
                                          !.run = hist.serial + 1,
                                          !.during = RunsInFlight,
                                          !.row = row, !.nvId = sub.id,
                                          !.nvKey = sub.secret,
                                          !.again = (kind = "manual" /\ LastRunFull)]]
  /\ hist' = [hist EXCEPT !.serial = @ + 1,
                          !.signals = IF kind = "form" THEN @ ELSE @ + 1,
                          !.after = [@ EXCEPT ![e] = 0]]

NoSub == Sub(<<>>, "", BallotBlank)

\* the form appends the response row, the raw secret in its key cell, and
\* fires onFormSubmit for that row
FormSubmit(e, sub, maxRows) ==
  /\ ~InFlight(e)
  /\ Len(resp) < maxRows
  /\ resp' = Append(resp, [ts |-> Len(resp) + 1, id |-> sub.id, key |-> sub.secret,
                           cred |-> "", exec |-> sub.ballot.exec,
                           fiscal |-> sub.ballot.fiscal, secret |-> sub.secret])
  /\ Start(e, "form", "process", Len(resp) + 1, sub)
  /\ cls' = {}
  /\ UNCHANGED <<probe, fiscalCol, credCol, MK, QTD, keys, val, tally>>

\* an edit of 'chaves_publicas' in the sheet fires onSpreadsheetEdit
EditKeys(e, rows, maxSignals) ==
  /\ ~InFlight(e)
  /\ hist.signals < maxSignals
  /\ keys' = rows
  /\ Start(e, "edit", "revalidate", 0, NoSub)
  /\ cls' = {}
  /\ UNCHANGED <<probe, fiscalCol, credCol, MK, QTD, resp, val, tally>>

\* the issuer changes the registry through the API and edits the flag cell,
\* which fires triggerApuracao
FlagSignal(e, rows, maxSignals) ==
  /\ ~InFlight(e)
  /\ hist.signals < maxSignals
  /\ keys' = rows
  /\ Start(e, "flag", "tally", 0, NoSub)
  /\ cls' = {}
  /\ UNCHANGED <<probe, fiscalCol, credCol, MK, QTD, resp, val, tally>>

\* processLastResponse, run by hand
ProcessLastResponse(e, maxSignals) ==
  /\ ~InFlight(e)
  /\ hist.signals < maxSignals
  /\ Start(e, "manual", "revalidate", 0, NoSub)
  /\ cls' = {}
  /\ UNCHANGED <<probe, fiscalCol, credCol, MK, QTD, keys, resp, val, tally>>

-----------------------------------------------------------------------------
(* The steps of an execution *)

Goto(e, pc) == ex' = [ex EXCEPT ![e].pc = pc]

Classified(by, row, keyData, status) ==
  [by |-> by, ts |-> row.ts, id |-> row.id, secret |-> row.secret, cell |-> row.key,
   mk |-> MK, rec |-> keyData, status |-> status]

\* processResponse_: the public key replaces the secret in the key cell and the
\* status is written; when getMasterKey throws, only the error status is written
ProcessResponse(e) ==
  /\ ex[e].pc = "process"
  /\ LET r       == ex[e].row
         userId  == normalizeId(ex[e].nvId)
         calcPub == calculatePubKey(ex[e].nvKey, MK)
         keyData == getKeysMap(keys, userId)
         status  == IF MK = "" THEN ST_ERROR ELSE classify(keyData, calcPub)
     IN  /\ resp' = [resp EXCEPT ![r].key = IF MK = "" THEN @ ELSE calcPub,
                                 ![r].cred = status]
         /\ cls' = {Classified("process", resp[r], keyData, status)}
  /\ ex' = [ex EXCEPT ![e].pc = "revalidate", ![e].snaps = @ \cup {keys}]
  /\ UNCHANGED <<probe, fiscalCol, credCol, MK, QTD, keys, val, tally, hist>>

\* revalidateAllVotes, up to the loop: one registry map and one read of the
\* response rows give the new status of every row
revalidatedStatusOnce(rows, row) ==
  IF row.cred = ST_VALID THEN ST_REVOKED
  ELSE classify(getKeysMap(rows, normalizeId(row.id)), row.key)

revalidatedStatus(rows, row) ==
  classify(getKeysMap(rows, normalizeId(row.id)), row.key)

RevalidateRead(e) ==
  /\ ex[e].pc = "revalidate"
  /\ IF Len(resp) = 0
     THEN /\ ex' = [ex EXCEPT ![e].pc = "validation", ![e].snaps = @ \cup {keys}]
          /\ cls' = {}
     ELSE /\ ex' = [ex EXCEPT ![e].pc = "revalidateWrite",
                              ![e].snaps = @ \cup {keys},
                              ![e].updates = [i \in 1..Len(resp) |->
                                                revalidatedStatus(keys, resp[i])]]
          /\ cls' = {Classified("revalidate", resp[i],
                                getKeysMap(keys, normalizeId(resp[i].id)),
                                revalidatedStatus(keys, resp[i])) : i \in 1..Len(resp)}
  /\ UNCHANGED <<probe, fiscalCol, credCol, MK, QTD, keys, resp, val, tally, hist>>

\* revalidateAllVotes' column of the status: the index of the header
\* 'Credenciais' (0 when no header has the name), column D when it is missing
statusColumnC(index) == IF index <= 0 THEN 3 ELSE index

VAL_IDX(index) == IF index <= 0 THEN 4 ELSE index

\* setValues on one column of a response row: timestamp, id, key and status
\* are columns A to D, the ballot follows
setColumn(row, col, value) ==
  CASE col = 1 -> [row EXCEPT !.ts = value]
    [] col = 2 -> [row EXCEPT !.id = value]
    [] col = 3 -> [row EXCEPT !.key = value]
    [] col = 4 -> [row EXCEPT !.cred = value]
    [] OTHER   -> IF col - 4 \in DOMAIN row.exec
                  THEN [row EXCEPT !.exec[col - 4] = value]
                  ELSE [row EXCEPT !.fiscal = value]

\* revalidateAllVotes: setValues of the status column over the rows read
RevalidateWrite(e) ==
  /\ ex[e].pc = "revalidateWrite"
  /\ resp' = [i \in 1..Len(resp) |->
                IF i <= Len(ex[e].updates)
                THEN setColumn(resp[i], VAL_IDX(credCol), ex[e].updates[i])
                ELSE resp[i]]
  /\ ex' = [ex EXCEPT ![e].pc = "validation", ![e].updates = <<>>]
  /\ cls' = {}
  /\ UNCHANGED <<probe, fiscalCol, credCol, MK, QTD, keys, val, tally, hist>>

\* generateValidationSheet: the ledger is cleared, then the responses are read
\* and the rows computed; with responses and an invalid column layout it
\* throws after the clearing, which ends the handler
ValidationBegin(e) ==
  /\ ex[e].pc = "validation"
  /\ val' = <<>>
  /\ IF Len(resp) = 0
     THEN Goto(e, "tally")
     ELSE IF columnsInvalid(fiscalCol)
     THEN ex' = [ex EXCEPT ![e] = [Idle EXCEPT !.run = ex[e].run,
                                               !.kind = ex[e].kind,
                                               !.again = ex[e].again]]
     ELSE ex' = [ex EXCEPT ![e].pc = "validationWrite",
                           ![e].results = validationResults(resp, <<>>)]
  /\ cls' = {}
  /\ UNCHANGED <<probe, fiscalCol, credCol, MK, QTD, keys, resp, tally, hist>>

\* generateValidationSheet: the rows are written
ValidationWrite(e) ==
  /\ ex[e].pc = "validationWrite"
  /\ val' = overwriteRows(val, ex[e].results)
  /\ ex' = [ex EXCEPT ![e].pc = "tally", ![e].results = <<>>]
  /\ cls' = {}
  /\ UNCHANGED <<probe, fiscalCol, credCol, MK, QTD, keys, resp, tally, hist>>

\* generateApuracaoAutomatica: the ledger is read and the tables computed
TallyRead(e) ==
  /\ ex[e].pc = "tally"
  /\ ex' = [ex EXCEPT ![e].pc = "tallyWrite", ![e].table = tallyOf(val, QTD)]
  /\ cls' = {}
  /\ UNCHANGED <<probe, fiscalCol, credCol, MK, QTD, keys, resp, val, tally, hist>>

\* generateApuracaoAutomatica: 'Apuracao' is cleared and written; the handler
\* returns
TallyWrite(e) ==
  /\ ex[e].pc = "tallyWrite"
  /\ tally' = ex[e].table
  /\ ex' = [ex EXCEPT ![e] = [Idle EXCEPT !.run = ex[e].run, !.kind = ex[e].kind,
                                          !.again = ex[e].again]]
  /\ hist' = [hist EXCEPT !.after =
                [g \in ExecIds |->
                   IF g # e /\ FullRun(e) /\ ex[g].run \in ex[e].during
                   THEN @[g] + 1 ELSE @[g]]]
  /\ cls' = {}
  /\ UNCHANGED <<probe, fiscalCol, credCol, MK, QTD, keys, resp, val>>

-----------------------------------------------------------------------------
(* Specifications *)

Step(e) ==
  \/ \E sub \in Submissions : FormSubmit(e, sub, MaxRows)
  \/ \E rows \in RegistryChanges(keys) : EditKeys(e, rows, MaxSignals)
  \/ \E rows \in RegistryChanges(keys) : FlagSignal(e, rows, MaxSignals)
  \/ ProcessLastResponse(e, MaxSignals)
  \/ ProcessResponse(e)
  \/ RevalidateRead(e)
  \/ RevalidateWrite(e)
  \/ ValidationBegin(e)
  \/ ValidationWrite(e)
  \/ TallyRead(e)
  \/ TallyWrite(e)

\* the handlers run one at a time, each to its end
Next == Step(1)

Spec == Init /\ [][Next]_vars

\* two executions may overlap: no handler takes a lock
ConcSubmissions ==
  { Sub(<<"7">>, "s1", BallotAB), Sub(<<"7">>, "s1", BallotB) }

StepConc(e) ==
  \/ \E sub \in ConcSubmissions : FormSubmit(e, sub, MaxConcRows)
  \/ \E rows \in RegistryChanges(keys) : EditKeys(e, rows, MaxConcSignals)
  \/ \E rows \in RegistryChanges(keys) : FlagSignal(e, rows, MaxConcSignals)
  \/ ProcessLastResponse(e, MaxConcSignals)
  \/ ProcessResponse(e)
  \/ RevalidateRead(e)
  \/ RevalidateWrite(e)
  \/ ValidationBegin(e)
  \/ ValidationWrite(e)
  \/ TallyRead(e)
  \/ TallyWrite(e)

NextConc == \E e \in ExecIds : StepConc(e)

InitConc == InitWith({IssuerKey}, {0})

SpecConc == InitConc /\ [][NextConc]_vars

\* a form with three ranking questions: three credentials are issued, and the
\* ballots repeat names, leave questions empty and differ in the letter case
\* of the secret
MaxBallotRows == 3

Ballot(e1, e2, e3, fiscal) == [exec |-> <<e1, e2, e3>>, fiscal |-> fiscal]

BallotSubmissions ==
  { Sub(<<"7">>, "s1", Ballot(<<"A">>, <<"B">>, <<"C">>, <<"X", ",", " ", "X", ",", " ", "Y">>)),
    Sub(<<"7">>, "s1", Ballot(<<"A">>, <<"C">>, <<>>, <<"Y", ",", " ", "X">>)),
    Sub(<<"8">>, "s1", Ballot(<<"B">>, <<"A">>, <<"C">>, <<"X", ",", " ", "Y">>)),
    Sub(<<"8">>, "s1", Ballot(<<"A">>, <<"A">>, <<"B">>, <<"Y">>)),
    Sub(<<"9">>, "s1", Ballot(<<"A">>, <<"C">>, <<>>, <<"Y", ",", " ", "A">>)),
    Sub(<<"9">>, "S1", Ballot(<<"B">>, <<>>, <<>>, <<>>)) }

InitBallots ==
  /\ MK = IssuerKey
  /\ QTD \in {0, 1}
  /\ keys = << KeyRow(<<"7">>, calculatePubKey("s1", IssuerKey), "TRUE"),
               KeyRow(<<"8">>, calculatePubKey("s1", IssuerKey), "TRUE"),
               KeyRow(<<"9">>, calculatePubKey("s1", IssuerKey), "TRUE") >>
  /\ resp = <<>>
  /\ val = <<>>
  /\ tally = emptyTally(0)
  /\ ex = [e \in ExecIds |-> Idle]
  /\ cls = {}
  /\ hist = [serial |-> 0, signals |-> 0, after |-> [e \in ExecIds |-> 0]]
  /\ probe = NoProbe
  /\ fiscalCol = FiscalColumn(3)
  /\ credCol = IDX_CRED + 1

NextBallots ==
  \/ \E sub \in BallotSubmissions : FormSubmit(1, sub, MaxBallotRows)
  \/ ProcessResponse(1)
  \/ RevalidateRead(1)
  \/ RevalidateWrite(1)
  \/ ValidationBegin(1)
  \/ ValidationWrite(1)
  \/ TallyRead(1)
  \/ TallyWrite(1)

SpecBallots == InitBallots /\ [][NextBallots]_vars

\* the scorecard formula is evaluated over the ranking column of the ledger,
\* with no candidate range or with a range that leaves names of the ballots out
OfficialRanges ==
  { <<>>, << <<"A">>, <<" ", "b">> >>, << <<"C">>, <<>>, <<"A">> >> }

LedgerRankings == [k \in 1..Len(val) |-> val[k].execStr]

ScorecardFormula(intervaloCandidatos) ==
  /\ \A e \in ExecIds : ~InFlight(e)
  /\ probe' = [fn |-> "BORDA_SCORECARD_BY_COLNAME",
               intervalo |-> intervaloCandidatos,
               valores |-> LedgerRankings,
               out |-> BORDA_SCORECARD_BY_COLNAME(LedgerRankings, intervaloCandidatos)]
  /\ cls' = {}
  /\ UNCHANGED <<fiscalCol, credCol, MK, QTD, keys, resp, val, tally, ex, hist>>

NextScore ==
  \/ NextBallots
  \/ \E intervalo \in OfficialRanges : ScorecardFormula(intervalo)

SpecScore == InitBallots /\ [][NextScore]_vars

\* one function of the scripts applied on its own, to arguments the handlers
\* need not pass it
KeyArguments == {"", UndefinedKey, "s1", "K"}

\* signatures: every byte value occurs, at every position
SignatureSteps == {0, 1, 37}

Signature(first, step) ==
  [i \in 1..DigestLength |-> ((first + (i - 1) * step) % 256) - 128]

CalculatePubKey(privKey, masterKey, signature) ==
  /\ probe = NoProbe
  /\ probe' = [fn |-> "calculatePubKey", privKey |-> privKey,
               masterKey |-> masterKey, signature |-> signature,
               key |-> calculatePubKey(privKey, masterKey),
               out |-> pubKeyText(privKey, masterKey, signature)]
  /\ UNCHANGED <<fiscalCol, credCol, MK, QTD, keys, resp, val, tally, ex, cls, hist>>

\* texts of at most n characters over an alphabet
Texts(alphabet, n) == UNION {[1..k -> alphabet] : k \in 0..n}

MaxTextLen == 3

PrivateChars == {"a", "B", " ", "1", "e-acute", "sharp-s", "dotless-i"}

NormalizePrivate(text) ==
  /\ probe = NoProbe
  /\ probe' = [fn |-> "normalizePrivate_", text |-> text,
               out |-> normalizePrivate_(text)]
  /\ UNCHANGED <<fiscalCol, credCol, MK, QTD, keys, resp, val, tally, ex, cls, hist>>

\* a race-2 answer: names written one after the other with a separator
MaxNames == 2

FiscalSeparators ==
  { <<",">>, <<",", " ">>, <<",", "NL">>, <<";">>, <<";", " ">>, <<"NL">> }

RECURSIVE joinWith(_, _)
joinWith(names, sep) ==
  IF names = <<>> THEN <<>>
  ELSE IF Len(names) = 1 THEN names[1]
       ELSE names[1] \o sep \o joinWith(Tail(names), sep)

\* the names generateApuracaoAutomatica counts for a countable row with this
\* race-2 answer: the ledger cell of generateValidationSheet, parsed by
\* parseVotos; and the names parseList finds in the same ledger cell
ParseFiscal(names, sep) ==
  LET row  == [exec |-> <<>>, fiscal |-> joinWith(names, sep)]
      cell == fiscalStrOf(row, APURACAO_STATUS)
  IN  /\ probe = NoProbe
      /\ probe' = [fn |-> "parseVotos", names |-> names, sep |-> sep,
                   out |-> parseVotos(cell), list |-> parseList(cell)]
      /\ UNCHANGED <<fiscalCol, credCol, MK, QTD, keys, resp, val, tally, ex, cls, hist>>

NextFunctions ==
  \/ \E privKey, masterKey \in KeyArguments :
       \E first \in 0..255, step \in SignatureSteps :
         CalculatePubKey(privKey, masterKey, Signature(first, step))
  \/ \E text \in Texts(PrivateChars, MaxTextLen) \cup {Undefined} :
       NormalizePrivate(text)
  \/ \E k \in 1..MaxNames : \E names \in [1..k -> {<<"X">>, <<"Y">>, <<"X", " ", "Y">>}] :
       \E sep \in FiscalSeparators : ParseFiscal(names, sep)

SpecFunctions == InitWith({IssuerKey}, {0}) /\ [][NextFunctions]_vars

\* String(flag).toUpperCase() of an is_active cell
flagUpperCase(c) ==
  CASE c = "true" -> "TRUE" [] c = " True " -> " TRUE " [] OTHER -> c

\* the statistics generateApuracaoAutomatica (the script of the README) writes
\* under the two tables; the cutoff MTPCE * 0.1 is kept in tenths
statsOf(keyRows, validationData, qtd) ==
  LET credenciaisAtivas ==
        Cardinality({i \in 1..Len(keyRows) : flagUpperCase(keyRows[i].act) = "TRUE"})
      votacoesValidas == Len(countedRows(validationData))
      nCandidatosExec == configuredMax(qtd)
      MTPCE == credenciaisAtivas * nCandidatosExec
  IN  [credenciaisAtivas |-> credenciaisAtivas,
       votacoesValidas |-> votacoesValidas,
       nCandidatosExec |-> nCandidatosExec,
       MTPCE |-> MTPCE,
       notaDeCorteTenths |-> MTPCE]

\* registries of two credentials, with the is_active cells the validation
\* reads as true or as false
StatsRegistries ==
  { << KeyRow(<<"7">>, calculatePubKey("s1", IssuerKey), a),
       KeyRow(<<"8">>, calculatePubKey("s1", IssuerKey), b) >> :
      a \in {"TRUE", "true"}, b \in {"TRUE", " True ", "FALSE"} }

MaxStatsRows == 2

InitStats ==
  /\ MK = IssuerKey
  /\ QTD \in {0, 1, 2}
  /\ keys \in StatsRegistries
  /\ resp = <<>>
  /\ val = <<>>
  /\ tally = emptyTally(0)
  /\ ex = [e \in ExecIds |-> Idle]
  /\ cls = {}
  /\ hist = [serial |-> 0, signals |-> 0, after |-> [e \in ExecIds |-> 0]]
  /\ probe = NoProbe
  /\ fiscalCol = FiscalColumn(2)
  /\ credCol = IDX_CRED + 1

\* the statistics are written with a tally that has candidate rows
Statistics ==
  /\ \A e \in ExecIds : ~InFlight(e)
  /\ hist.serial > 0
  /\ tally.exec # <<>> \/ tally.fiscal # <<>>
  /\ probe' = [fn |-> "statistics", out |-> statsOf(keys, val, QTD)]
  /\ cls' = {}
  /\ UNCHANGED <<fiscalCol, credCol, MK, QTD, keys, resp, val, tally, ex, hist>>

NextStats ==
  \/ \E sub \in Submissions : FormSubmit(1, sub, MaxStatsRows)
  \/ ProcessResponse(1)
  \/ RevalidateRead(1)
  \/ RevalidateWrite(1)
  \/ ValidationBegin(1)
  \/ ValidationWrite(1)
  \/ TallyRead(1)
  \/ TallyWrite(1)
  \/ Statistics

SpecStats == InitStats /\ [][NextStats]_vars

\* the header row of the responses is edited between two form runs: the
\* race-2 question loses its name, or is moved next to 'Credenciais'
MaxColumnRows == 2

\* the registry holds a record whose public-key cell is blank, and the form
\* lets a voter leave the key question empty
BlankKeyRegistry ==
  << KeyRow(<<"7">>, "", "TRUE"),
     KeyRow(<<"8">>, calculatePubKey("s1", IssuerKey), "TRUE") >>

BlankSubmissions ==
  { Sub(<<"7">>, "", BallotAB),
    Sub(<<"7">>, "s1", BallotB),
    Sub(<<"8">>, "", BallotAB),
    Sub(<<"8">>, "s1", BallotB),
    Sub(<<"9">>, "", BallotB) }

MaxBlankRows == 2

InitBlank ==
  /\ MK \in {"", IssuerKey}
  /\ QTD = 0
  /\ keys = BlankKeyRegistry
  /\ resp = <<>>
  /\ val = <<>>
  /\ tally = emptyTally(0)
  /\ ex = [e \in ExecIds |-> Idle]
  /\ cls = {}
  /\ hist = [serial |-> 0, signals |-> 0, after |-> [e \in ExecIds |-> 0]]
  /\ probe = NoProbe
  /\ fiscalCol = FiscalColumn(2)
  /\ credCol = IDX_CRED + 1

NextBlank ==
  \/ \E sub \in BlankSubmissions : FormSubmit(1, sub, MaxBlankRows)
  \/ ProcessResponse(1)
  \/ RevalidateRead(1)
  \/ RevalidateWrite(1)
  \/ ValidationBegin(1)
  \/ ValidationWrite(1)
  \/ TallyRead(1)
  \/ TallyWrite(1)

SpecBlank == InitBlank /\ [][NextBlank]_vars

\* the header of column D of the responses is 'Credenciais', or another text
CredentialHeaders == {0, IDX_CRED + 1}

MaxHeaderRows == 2

InitHeaders ==
  /\ MK = IssuerKey
  /\ QTD = 0
  /\ keys = << KeyRow(<<"7">>, calculatePubKey("s1", IssuerKey), "TRUE") >>
  /\ resp = <<>>
  /\ val = <<>>
  /\ tally = emptyTally(0)
  /\ ex = [e \in ExecIds |-> Idle]
  /\ cls = {}
  /\ hist = [serial |-> 0, signals |-> 0, after |-> [e \in ExecIds |-> 0]]
  /\ probe = NoProbe
  /\ fiscalCol = FiscalColumn(2)
  /\ credCol \in CredentialHeaders

NextHeaders ==
  \/ \E sub \in Submissions : FormSubmit(1, sub, MaxHeaderRows)
  \/ \E rows \in RegistryChanges(keys) : EditKeys(1, rows, MaxSignals)
  \/ ProcessResponse(1)
  \/ RevalidateRead(1)
  \/ RevalidateWrite(1)
  \/ ValidationBegin(1)
  \/ ValidationWrite(1)
  \/ TallyRead(1)
  \/ TallyWrite(1)

SpecHeaders == InitHeaders /\ [][NextHeaders]_vars

BadFiscalColumns == {0, IDX_CRED + 2}

EditHeaders(index) ==
  /\ \A e \in ExecIds : ~InFlight(e)
  /\ ~columnsInvalid(fiscalCol)
  /\ fiscalCol' = index
  /\ cls' = {}
  /\ UNCHANGED <<probe, credCol, MK, QTD, keys, resp, val, tally, ex, hist>>

NextColumns ==
  \/ \E sub \in Submissions : FormSubmit(1, sub, MaxColumnRows)
  \/ \E index \in BadFiscalColumns : EditHeaders(index)
  \/ ProcessResponse(1)
  \/ RevalidateRead(1)
  \/ RevalidateWrite(1)
  \/ ValidationBegin(1)
  \/ ValidationWrite(1)
  \/ TallyRead(1)
  \/ TallyWrite(1)

SpecColumns == InitWith({IssuerKey}, {0}) /\ [][NextColumns]_vars

\* the issuer reissues the credential of the one voter: the voter's record is
\* marked inactive and a new credential, under a public id never used before,
\* is appended; the flag cell then fires triggerApuracao
MaxReissueRows == 2
MaxReissues == 1

FreshIds == << <<"8">>, <<"9">>, <<"6">> >>

NewCredential(rows) ==
  LET used == {rows[i].id : i \in 1..Len(rows)}
      k    == CHOOSE n \in 1..Len(FreshIds) :
                /\ FreshIds[n] \notin used
                /\ \A m \in 1..(n - 1) : FreshIds[m] \in used
  IN  KeyRow(FreshIds[k], calculatePubKey("s2", IssuerKey), "TRUE")

Reissue(rows) ==
  Append([i \in 1..Len(rows) |-> [rows[i] EXCEPT !.act = "FALSE"]],
         NewCredential(rows))

ReissueSubmissions ==
  { Sub(<<"7">>, "s1", BallotAB), Sub(<<"8">>, "s2", BallotB),
    Sub(<<"7">>, "s2", BallotB), Sub(<<"8">>, "s1", BallotAB) }

NextReissue ==
  \/ \E sub \in ReissueSubmissions : FormSubmit(1, sub, MaxReissueRows)
  \/ FlagSignal(1, Reissue(keys), MaxReissues)
  \/ ProcessResponse(1)
  \/ RevalidateRead(1)
  \/ RevalidateWrite(1)
  \/ ValidationBegin(1)
  \/ ValidationWrite(1)
  \/ TallyRead(1)
  \/ TallyWrite(1)

SpecReissue == InitWith({IssuerKey}, {0}) /\ [][NextReissue]_vars

-----------------------------------------------------------------------------
(* Claims *)

\* the classification of the specification: unknown id, then wrong secret,
\* then revoked, then valid
Verdict(rec, pk) ==
  IF ~rec.present THEN ST_UNKNOWN
  ELSE IF rec.pub_key # pk THEN ST_WRONG
  ELSE IF ~rec.is_active THEN ST_REVOKED
  ELSE ST_VALID

\* C1: every classification made by processResponse_ or revalidateAllVotes is
\* one of the four outcomes, chosen in the priority order unknown id, wrong
\* secret, credential revoked, valid, from the registry record of the id and
\* the key recomputed from the submitted secret.
C1_FourOutcomes ==
  \A c \in cls : c.status = Verdict(c.rec, calculatePubKey(c.secret, c.mk))

\* the same with a master key configured (the part of C1 the code keeps)
C1_WithMasterKey ==
  \A c \in cls : c.mk # "" => c.status = Verdict(c.rec, calculatePubKey(c.secret, c.mk))

\* C2: a submission whose secret recomputes to the stored public key of its
\* id, the record being inactive, is classified 'credential revoked'.
C2_RevokedNotMismatch ==
  \A c \in cls :
    ( /\ c.mk # ""
      /\ c.rec.present
      /\ c.rec.pub_key = calculatePubKey(c.secret, c.mk)
      /\ ~c.rec.is_active )
    => c.status = ST_REVOKED

C2_Witness ==
  \E c \in cls :
    /\ c.by = "revalidate"
    /\ c.mk # "" /\ c.secret # ""
    /\ c.rec.present /\ ~c.rec.is_active
    /\ c.rec.pub_key = calculatePubKey(c.secret, c.mk)
    /\ c.status = ST_REVOKED

\* the response row a ledger row was made from has an entry in some race
ContentNonBlank(ts) ==
  \/ \E j \in 1..Len(resp[ts].exec) :
       \E i \in 1..Len(resp[ts].exec[j]) : resp[ts].exec[j][i] \notin WS
  \/ \E i \in 1..Len(resp[ts].fiscal) : resp[ts].fiscal[i] \notin WS

ValidNonBlank(k) == val[k].cred = ST_VALID /\ ContentNonBlank(val[k].ts)

SameId(j, k) == val[j].id = val[k].id

\* C3: each public_id has at most one valid-countable row in the ledger, and
\* it is the earliest row of the id whose credential is valid and whose
\* content is non-blank.
C3_FirstValidCountable ==
  /\ \A j, k \in 1..Len(val) : j < k => val[j].ts < val[k].ts
  /\ \A k \in 1..Len(val) :
       val[k].final = APURACAO_STATUS
       <=> ( /\ ValidNonBlank(k)
             /\ ~\E j \in 1..(k - 1) : SameId(j, k) /\ ValidNonBlank(j) )
  /\ \A j, k \in 1..Len(val) :
       (SameId(j, k) /\ val[j].final = APURACAO_STATUS
          /\ val[k].final = APURACAO_STATUS) => j = k

C3_Witness ==
  \E j, k \in 1..Len(val) :
    /\ j < k /\ SameId(j, k)
    /\ resp[val[j].ts].id # resp[val[k].ts].id
    /\ ValidNonBlank(j) /\ ValidNonBlank(k)
    /\ val[j].final = APURACAO_STATUS
    /\ val[k].final # APURACAO_STATUS

\* C4 as claimed: every row of an id after the id's valid-countable row is a
\* duplicate, whatever its own credential and content.
C4_AllLaterDuplicate ==
  \A j, k \in 1..Len(val) :
    (j < k /\ SameId(j, k) /\ val[j].final = APURACAO_STATUS)
    => val[k].final = FS_DUPLICATE

\* C4 as amended: a row of an id after the id's valid-countable row is a
\* duplicate exactly when its own credential is valid and its content is
\* non-blank; with an invalid credential it is invalid-credential with its
\* own reason, and with a valid credential and no content it is blank.
C4_LaterByOwnStatus ==
  \A j, k \in 1..Len(val) :
    (j < k /\ SameId(j, k) /\ val[j].final = APURACAO_STATUS)
    => val[k].final =
         ( IF val[k].cred # ST_VALID THEN FS_CRED(val[k].cred)
           ELSE IF ~ContentNonBlank(val[k].ts) THEN FS_BLANK
           ELSE FS_DUPLICATE )

C4_Witness ==
  \E j, k, m \in 1..Len(val) :
    /\ j < k /\ j < m /\ SameId(j, k) /\ SameId(j, m)
    /\ val[j].final = APURACAO_STATUS
    /\ val[k].final = FS_DUPLICATE
    /\ val[m].cred # ST_VALID /\ val[m].final = FS_CRED(val[m].cred)

ValidBlank(k) == val[k].cred = ST_VALID /\ ~ContentNonBlank(val[k].ts)

\* the rows j < k < m are the first three rows of their id
FirstThree(j, k, m) ==
  /\ j < k /\ k < m /\ SameId(j, k) /\ SameId(k, m)
  /\ \A n \in 1..(m - 1) : SameId(n, m) => n \in {j, k}

\* C5: a row with a valid credential and no entry in either race is
\* invalid-content:blank and does not use up the countable vote of its id;
\* (valid non-blank, blank, valid non-blank) gives valid-countable, blank,
\* duplicate.
C5_BlankKeepsVote ==
  /\ \A k \in 1..Len(val) :
       ValidBlank(k) => val[k].final = FS_BLANK /\ val[k].contador = 0
  /\ \A j, k \in 1..Len(val) :
       ( /\ j < k /\ SameId(j, k) /\ ValidBlank(j) /\ ValidNonBlank(k)
         /\ ~\E n \in 1..(k - 1) : SameId(n, k) /\ ValidNonBlank(n) )
       => val[k].final = APURACAO_STATUS
  /\ \A j, k, m \in 1..Len(val) :
       (FirstThree(j, k, m) /\ ValidNonBlank(j) /\ ValidBlank(k) /\ ValidNonBlank(m))
       => /\ val[j].final = APURACAO_STATUS
          /\ val[k].final = FS_BLANK
          /\ val[m].final = FS_DUPLICATE

C5_Witness ==
  \E j, k, m \in 1..Len(val) :
    /\ FirstThree(j, k, m)
    /\ ValidNonBlank(j) /\ ValidBlank(k) /\ ValidNonBlank(m)
    /\ val[m].final = FS_DUPLICATE

IsFinalStatus(r) ==
  \/ r.final \in {APURACAO_STATUS, FS_BLANK, FS_DUPLICATE}
  \/ r.cred # ST_VALID /\ r.final = FS_CRED(r.cred)

\* C6: the ledger a run has written holds exactly one row for every response
\* row, in arrival order, a row with a blank public_id included, and every
\* row carries one final status of the four kinds.
C6_OneRowPerSubmission ==
  \A e \in ExecIds :
    (FullRun(e) /\ ex[e].pc = "tally")
    => /\ Len(val) = Len(resp)
       /\ \A i \in 1..Len(val) : val[i].ts = i /\ IsFinalStatus(val[i])

\* the part of C6 the code keeps: one row for every response row with a
\* non-blank id
C6_NonBlankIds ==
  \A e \in ExecIds :
    (FullRun(e) /\ ex[e].pc = "tally")
    => /\ {val[k].ts : k \in 1..Len(val)}
            = {i \in 1..Len(resp) : normalizeId(resp[i].id) # <<>>}
       /\ \A j, k \in 1..Len(val) : val[j].ts = val[k].ts => j = k
       /\ \A k \in 1..Len(val) : IsFinalStatus(val[k])

Settled == hist.serial > 0 /\ \A e \in ExecIds : ~InFlight(e)

IsCountableRow(r) == r.final = APURACAO_STATUS

CountableLedger == SelectSeq(val, IsCountableRow)

CountableTs == {val[k].ts : k \in {n \in 1..Len(val) : IsCountableRow(val[n])}}

\* the characters of candidate names on the ballot of a response row
ExecChars(ts) ==
  UNION {{resp[ts].exec[j][i] : i \in 1..Len(resp[ts].exec[j])} :
           j \in 1..Len(resp[ts].exec)} \ (WS \cup {","})

FiscalChars(ts) ==
  {resp[ts].fiscal[i] : i \in 1..Len(resp[ts].fiscal)} \ (WS \cup {","})

CharsOf(table) ==
  UNION {{table[k].nome[i] : i \in 1..Len(table[k].nome)} : k \in 1..Len(table)}

\* C7: only valid-countable rows contribute to the tables: every candidate
\* name of a table comes from the ballot of a countable submission, and the
\* rows of both tables are those of the ledger with every other row removed.
C7_OnlyCountableCounts ==
  Settled =>
    /\ CharsOf(tally.exec) \subseteq UNION {ExecChars(ts) : ts \in CountableTs}
    /\ CharsOf(tally.fiscal) \subseteq UNION {FiscalChars(ts) : ts \in CountableTs}
    /\ tally.exec = tallyOf(CountableLedger, QTD).exec
    /\ tally.fiscal = tallyOf(CountableLedger, QTD).fiscal

C7_Witness ==
  /\ Settled
  /\ Len(tally.exec) > 0
  /\ \E k \in 1..Len(val) :
       /\ ~IsCountableRow(val[k])
       /\ ExecChars(val[k].ts) \ UNION {ExecChars(ts) : ts \in CountableTs} # {}

\* the form handler of response row i has returned
HandlerReturned(i) ==
  ~\E e \in ExecIds : InFlight(e) /\ ex[e].kind = "form" /\ ex[e].row = i

\* C8: once onFormSubmit has returned for a response row, on every path, the
\* key cell of the row holds the recomputed public key and not the raw secret.
C8_SecretOverwritten ==
  \A i \in 1..Len(resp) :
    HandlerReturned(i)
    => /\ resp[i].key = calculatePubKey(resp[i].secret, MK)
       /\ resp[i].secret # "" => resp[i].key # resp[i].secret

\* the part of C8 the code keeps: with a master key configured
C8_WithMasterKey ==
  \A i \in 1..Len(resp) :
    (MK # "" /\ HandlerReturned(i))
    => resp[i].key = calculatePubKey(resp[i].secret, MK)

\* C9: two runs never interleave: no execution is past its first read and
\* before its last write while another one is.
C9_NoInterleaving ==
  \A e, f \in ExecIds : (e # f /\ Midrun(e)) => ~Midrun(f)

\* C10: however many triggers arrive while a run is under way, at most one
\* fresh full run is executed for them (hist.after counts the full runs
\* executed for the triggers that fired during the run of each execution).
C10_OneFreshRun ==
  \A e \in ExecIds : hist.after[e] <= 1

\* the registry record of a ledger row's id is present and active
CredentialActive(r) == getKeysMap(keys, r.id).is_active

IsCountableActive(r) == IsCountableRow(r) /\ CredentialActive(r)

\* the last run started was fired by a signal of one of the kinds and is over
SignalRunDone(kinds) ==
  /\ Settled
  /\ \E e \in ExecIds : ex[e].kind \in kinds /\ ex[e].run = hist.serial

\* every status cell holds what a revalidation against the registry gives, no
\* row of an inactive credential is countable, and the tables are those of the
\* countable rows of active credentials
RevalidatedAndRetallied ==
  /\ \A i \in 1..Len(resp) : resp[i].cred = revalidatedStatus(keys, resp[i])
  /\ \A k \in 1..Len(val) : IsCountableRow(val[k]) => CredentialActive(val[k])
  /\ tally.exec = tallyOf(SelectSeq(val, IsCountableActive), QTD).exec
  /\ tally.fiscal = tallyOf(SelectSeq(val, IsCountableActive), QTD).fiscal

\* C11: once the run fired by a registry-change signal (an edit of the
\* registry sheet, or the flag cell) has completed, every submission has been
\* revalidated and no submission whose credential is inactive in the registry
\* is counted in the tally.
C11_SignalRevalidates ==
  SignalRunDone({"edit", "flag"}) => RevalidatedAndRetallied

\* the part of C11 the code keeps: the run fired by an edit of the registry
\* sheet
C11_EditRevalidates ==
  SignalRunDone({"edit"}) => RevalidatedAndRetallied

\* the classification of response row i against the registry as it is now
CurrentVerdict(i) ==
  Verdict(getKeysMap(keys, normalizeId(resp[i].id)),
          calculatePubKey(resp[i].secret, MK))

\* C12: once every triggered run has completed, the recorded credential
\* status of each submission is the classification of the submission against
\* the current registry, whatever the sequence or overlap of the runs.
C12_StatusMatchesRegistry ==
  Settled => \A i \in 1..Len(resp) : resp[i].cred = CurrentVerdict(i)

\* the rankings of the countable rows, as the ledger holds them
CountableRankings ==
  [k \in 1..Len(CountableLedger) |-> parseVotos(CountableLedger[k].execStr)]

\* N: the configured maximum score when one is set, else the size of the
\* candidate universe of the countable rankings
MaxScore == IF QTD > 0 THEN QTD ELSE Cardinality(namesIn(CountableRankings))

PointsAtRank(N, i) == IF i < N THEN N - i ELSE 0

ClaimedPoints(cand) ==
  SumSeq([k \in 1..Len(CountableRankings) |->
            SumSeq([i \in 1..Len(CountableRankings[k]) |->
                      IF CountableRankings[k][i] = cand
                      THEN PointsAtRank(MaxScore, i - 1) ELSE 0])])

LongestRanking ==
  IF Len(CountableRankings) = 0 THEN 0
  ELSE CHOOSE n \in {Len(CountableRankings[k]) : k \in 1..Len(CountableRankings)} :
         \A k \in 1..Len(CountableRankings) : Len(CountableRankings[k]) <= n

\* C13: a candidate at 0-based rank i of a countable ballot earns N - i points
\* when i < N and 0 points when i >= N, N being the configured maximum when
\* set and else the size of the universe of the countable rankings; no
\* candidate's total is lowered by a ballot.
C13_PointsNeverNegative ==
  Settled =>
    \A r \in 1..Len(tally.exec) :
      /\ tally.exec[r].pontos = ClaimedPoints(tally.exec[r].nome)
      /\ tally.exec[r].pontos >= 0

\* the part of C13 the code keeps: no countable ranking is longer than N
C13_WithinMaxScore ==
  (Settled /\ LongestRanking <= MaxScore) =>
    \A r \in 1..Len(tally.exec) :
      /\ tally.exec[r].pontos = ClaimedPoints(tally.exec[r].nome)
      /\ tally.exec[r].pontos >= 0

\* the names a voter put in the ranking questions of response row ts
RankingCells(ts) == SelectSeq(mapTrim(resp[ts].exec), NonEmptyText)

NamesOf(b) == {b[i] : i \in 1..Len(b)}

FirstIndex(b, c) == CHOOSE i \in 1..Len(b) : b[i] = c /\ \A j \in 1..(i - 1) : b[j] # c

\* d holds each name of b once, in the order of the first occurrences in b
IsFirstOccurrences(d, b) ==
  /\ \A i, j \in 1..Len(d) : d[i] = d[j] => i = j
  /\ NamesOf(d) = NamesOf(b)
  /\ \A i, j \in 1..Len(d) : i < j => FirstIndex(b, d[i]) < FirstIndex(b, d[j])

\* the 0-based rank of c in b once the later duplicates are removed
DedupRank(b, c) == Cardinality({b[j] : j \in 1..(FirstIndex(b, c) - 1)})

ScoredOnce(cand) ==
  SumSeq([k \in 1..Len(CountableLedger) |->
            LET b == RankingCells(CountableLedger[k].ts)
            IN  IF cand \in NamesOf(b) THEN tally.npos - DedupRank(b, cand) ELSE 0])

HasRepeatedName(b) == \E i, j \in 1..Len(b) : i # j /\ b[i] = b[j]

\* C14: within one countable Borda ballot a name given more than once is
\* scored once, at its first occurrence, the ranks being the positions in the
\* ballot with the later duplicates removed.
C14_ScoredOnceAtFirst ==
  Settled =>
    /\ \A k \in 1..Len(CountableLedger) :
         IsFirstOccurrences(CountableRankings[k], RankingCells(CountableLedger[k].ts))
    /\ \A r \in 1..Len(tally.exec) :
         tally.exec[r].pontos = ScoredOnce(tally.exec[r].nome)

C14_Witness ==
  /\ Settled
  /\ Len(tally.exec) > 1
  /\ \E k \in 1..Len(CountableLedger) :
       /\ HasRepeatedName(RankingCells(CountableLedger[k].ts))
       /\ Len(CountableRankings[k]) > 1

\* the distinct names the voter of response row ts gave in the plurality race
FiscalNames(ts) == NamesOf(parseVotos(resp[ts].fiscal))

HasRepeatedFiscalName(ts) == HasRepeatedName(parseVotos(resp[ts].fiscal))

VotesPerBallot(cand) == Cardinality({ts \in CountableTs : cand \in FiscalNames(ts)})

\* C15: in the plurality race each countable ballot adds exactly one vote to
\* every distinct name it mentions, however often the name is repeated on the
\* ballot: "X,X,Y" and "X,Y" give X = 2 and Y = 2.
C15_OneVotePerName ==
  Settled =>
    \A r \in 1..Len(tally.fiscal) :
      tally.fiscal[r].votos = VotesPerBallot(tally.fiscal[r].nome)

\* the part of C15 the code keeps: no countable ballot repeats a name
C15_NoRepeatedName ==
  (Settled /\ \A ts \in CountableTs : ~HasRepeatedFiscalName(ts)) =>
    \A r \in 1..Len(tally.fiscal) :
      tally.fiscal[r].votos = VotesPerBallot(tally.fiscal[r].nome)

\* how many countable rankings have cand at each rank, over all the ranks used
RankCounts(cand) ==
  [p \in 1..LongestRanking |->
     Cardinality({k \in 1..Len(CountableRankings) :
                    p <= Len(CountableRankings[k]) /\ CountableRankings[k][p] = cand})]

LexGreater(a, b) ==
  \E p \in 1..Len(a) : a[p] > b[p] /\ \A q \in 1..(p - 1) : a[q] = b[q]

\* row a is listed above row b: more points; or equal points and the larger
\* vector of per-rank counts; or both equal and the earlier name
ListedAbove(a, b) ==
  \/ a.pontos > b.pontos
  \/ /\ a.pontos = b.pontos
     /\ LexGreater(RankCounts(a.nome), RankCounts(b.nome))
  \/ /\ a.pontos = b.pontos
     /\ RankCounts(a.nome) = RankCounts(b.nome)
     /\ nameBefore(a.nome, b.nome)

BordaOrdered ==
  \A r \in 1..(Len(tally.exec) - 1) : ListedAbove(tally.exec[r], tally.exec[r + 1])

\* C16: the Borda table lists the candidates by points descending, those with
\* equal points by their vectors of per-rank occurrence counts compared
\* lexicographically, larger first, and those still tied by name ascending.
C16_BordaOrder ==
  Settled => BordaOrdered

\* the part of C16 the code keeps: no countable ranking is longer than N
C16_WithinMaxScore ==
  (Settled /\ LongestRanking <= tally.npos) => BordaOrdered

\* the example of C16: the ballots [A,B,C] and [B,A,C] with N = 3 give
\* A = 5, B = 5, C = 2 with A above B
C16_Example ==
  ( /\ Settled
    /\ {CountableRankings[k] : k \in 1..Len(CountableRankings)}
         = {<< <<"A">>, <<"B">>, <<"C">> >>, << <<"B">>, <<"A">>, <<"C">> >>}
    /\ Len(CountableRankings) = 2 /\ tally.npos = 3 )
  => /\ [r \in 1..Len(tally.exec) |-> tally.exec[r].nome] = << <<"A">>, <<"B">>, <<"C">> >>
     /\ [r \in 1..Len(tally.exec) |-> tally.exec[r].pontos] = <<5, 5, 2>>

\* C17: the plurality table lists the candidates by vote count descending,
\* and those with equal vote counts by name ascending.
C17_PluralityOrder ==
  Settled =>
    \A r \in 1..(Len(tally.fiscal) - 1) :
      \/ tally.fiscal[r].votos > tally.fiscal[r + 1].votos
      \/ /\ tally.fiscal[r].votos = tally.fiscal[r + 1].votos
         /\ nameBefore(tally.fiscal[r].nome, tally.fiscal[r + 1].nome)

C17_Witness ==
  /\ Settled
  /\ \E r \in 1..(Len(tally.fiscal) - 1) :
       /\ tally.fiscal[r].votos > tally.fiscal[r + 1].votos
       /\ nameBefore(tally.fiscal[r + 1].nome, tally.fiscal[r].nome)
  /\ \E r \in 1..(Len(tally.fiscal) - 1) :
       tally.fiscal[r].votos = tally.fiscal[r + 1].votos

\* the rows before k of the same id that are credential-valid and non-blank
EarlierCountable(k) == {j \in 1..(k - 1) : SameId(j, k) /\ ValidNonBlank(j)}

\* C18: within one public_id the sequence number is 1, 2, 3, ... on the
\* successive rows that are credential-valid and non-blank, in arrival order,
\* and 0 on every row with an invalid credential; the counters of different
\* ids are independent.
C18_SequenceNumbers ==
  \A k \in 1..Len(val) :
    /\ ValidNonBlank(k) => val[k].contador = Cardinality(EarlierCountable(k)) + 1
    /\ val[k].cred # ST_VALID => val[k].contador = 0

C18_Witness ==
  \E j, k, m \in 1..Len(val) :
    /\ j < k /\ SameId(j, k) /\ ~SameId(j, m)
    /\ val[j].contador = 1 /\ val[k].contador = 2 /\ val[m].contador = 1

\* the characters of the secrets of the model
SecretText(secret) ==
  CASE secret = "s1" -> <<"s", "1">>
    [] secret = "S1" -> <<"S", "1">>
    [] secret = "s2" -> <<"s", "2">>
    [] OTHER -> <<>>

UpperCase(c) == IF c = "s" THEN "S" ELSE c

IsLetterAZ(c) == c \in {"A", "B", "C", "S", "X", "Y"}

\* normalize(secretText): uppercased, whitespace and every character outside
\* A-Z removed
NormalForm(secret) ==
  SelectSeq([i \in 1..Len(SecretText(secret)) |-> UpperCase(SecretText(secret)[i])],
            IsLetterAZ)

\* C19: two submissions of the same public_id classified against the same
\* registry snapshot whose raw secrets have the same normal form receive the
\* same credential classification.
C19_NormalFormDecides ==
  \A c, d \in cls :
    ( /\ c.by = d.by
      /\ normalizeId(c.id) = normalizeId(d.id)
      /\ NormalForm(c.secret) = NormalForm(d.secret) )
    => c.status = d.status

\* the part of C19 the code keeps: the same raw secret
C19_RawSecretDecides ==
  \A c, d \in cls :
    ( /\ c.by = d.by
      /\ normalizeId(c.id) = normalizeId(d.id)
      /\ c.secret = d.secret )
    => c.status = d.status

\* execution e runs processLastResponse right after a full run has completed,
\* nothing having changed in between
RecomputeAgain(e) == ex[e].kind = "manual" /\ ex[e].again

StepOf(e, from, to) == ex[e].pc = from /\ ex'[e].pc = to

\* C20: the recompute (revalidateAllVotes, generateValidationSheet,
\* generateApuracaoAutomatica) invoked again with unchanged submissions,
\* registry and configuration leaves the credential statuses, the ledger and
\* the tables as the first invocation left them: the status column it writes
\* is the one it read, the ledger it writes is the one it cleared, and the
\* tables it writes are the ones it replaced.
C20_RecomputeIdempotent ==
  [][ \A e \in ExecIds :
        RecomputeAgain(e) =>
          /\ StepOf(e, "revalidateWrite", "validation") => resp' = resp
          /\ StepOf(e, "validation", "validationWrite") => ex'[e].results = val
          /\ StepOf(e, "validation", "tally") => val = <<>>
          /\ StepOf(e, "validationWrite", "tally") => val' = ex[e].results
          /\ StepOf(e, "tallyWrite", "idle") => tally' = tally ]_vars

C20_Witness ==
  /\ Settled
  /\ \E e \in ExecIds : RecomputeAgain(e) /\ ex[e].run = hist.serial
  /\ Len(tally.exec) > 0
  /\ \E k \in 1..Len(val) : IsCountableRow(val[k])
  /\ \E k \in 1..Len(val) : ~IsCountableRow(val[k])

-----------------------------------------------------------------------------
\* C21: within one validation run every submission is classified against the
\* same registry snapshot, read once at the start of the run: the run reads
\* the registry one time only, so that a registry change made while it is in
\* progress reaches none of its classifications
C21_OneSnapshotPerRun ==
  \A e \in ExecIds : Cardinality(ex[e].snaps) <= 1

\* the key cell of a response row holds the raw secret or its public key
KeyCells(r) == {r.secret, calculatePubKey(r.secret, MK)}

\* one pass of revalidateAllVotes does classify every row against a single
\* snapshot: the statuses it is about to write all come from one registry
\* it read
C21_OneSnapshotPerPass ==
  \A e \in ExecIds :
    ex[e].pc = "revalidateWrite" =>
      \E rows \in ex[e].snaps :
        \A i \in 1..Len(ex[e].updates) :
          \E cell \in KeyCells(resp[i]) :
            ex[e].updates[i] =
              classify(getKeysMap(rows, normalizeId(resp[i].id)), cell)

-----------------------------------------------------------------------------
\* C22: when the master secret is not configured the run aborts with a
\* configuration error: a form run that finds no master key goes on to no
\* revalidation, ledger or tally step
C22_AbortsWithoutMasterKey ==
  \A e \in ExecIds :
    (MK = "" /\ ex[e].kind = "form") => ex[e].pc \in {"process", "revalidate"}

\* no empty or substitute secret takes the place of the missing one: the key
\* cell of a row submitted without a master key keeps what the form wrote
C22_NoSubstituteSecret ==
  \A i \in 1..Len(resp) : MK = "" => resp[i].key = resp[i].secret

-----------------------------------------------------------------------------
\* the step in which generateValidationSheet throws on the column layout
ColumnsError(e) ==
  /\ ex[e].pc = "validation"
  /\ Len(resp) > 0
  /\ columnsInvalid(fiscalCol)
  /\ ex'[e].pc = "idle"

\* C23: a misconfigured or overlapping candidate-column range raises an error
\* that stops the tally step only: the validation ledger that existed before
\* the error is left intact
C23_LedgerIntact ==
  [][\A e \in ExecIds : ColumnsError(e) => val' = val]_vars

\* the credential statuses and the tally table that existed before the error
\* are left as they were
C23_StatusesIntact ==
  [][\A e \in ExecIds : ColumnsError(e) => (resp' = resp /\ tally' = tally)]_vars

-----------------------------------------------------------------------------
\* registry row i is a record the issuer revoked in a reissue: it is inactive
\* and a credential registered after it is active
ReissuedRecord(i) ==
  /\ ~isActiveCell(keys[i].act)
  /\ \E j \in (i + 1)..Len(keys) :
       isActiveCell(keys[j].act) /\ keys[j].id # keys[i].id

\* a reissue keeps every record there was, with its id and its public key,
\* leaves none of them active and appends one record
RecordsKept ==
  keys' # keys =>
    /\ Len(keys') = Len(keys) + 1
    /\ \A i \in 1..Len(keys) :
         /\ keys'[i].id = keys[i].id
         /\ keys'[i].pub = keys[i].pub
         /\ ~isActiveCell(keys'[i].act)
    /\ isActiveCell(keys'[Len(keys')].act)

\* a classification of a vote that carries the id and the secret of a
\* reissued record
OldCredentialVotes ==
  {c \in cls : \E i \in 1..Len(keys) :
                 /\ ReissuedRecord(i)
                 /\ normalizeId(c.id) = keys[i].id
                 /\ calculatePubKey(c.secret, MK) = keys[i].pub}

\* C24: a reissue marks the existing record inactive without deleting it and
\* then registers the new credential; from then on a vote cast with the old
\* public id and the old secret is classified 'credential revoked'
C24_ReissueRevokes ==
  /\ [][RecordsKept]_vars
  /\ [](\A c \in OldCredentialVotes : c.status = ST_REVOKED)

C24_Witness ==
  \E c \in OldCredentialVotes : c.by = "process" /\ c.status = ST_REVOKED

-----------------------------------------------------------------------------
\* the table holds nothing below its titles and header rows
IsPlaceholder(table) == table.exec = <<>> /\ table.fiscal = <<>>

NoCountableVote == \A k \in 1..Len(val) : ~IsCountableRow(val[k])

\* C25: when there is no countable vote (no response, an empty ledger, or a
\* ledger without a countable row) the handlers run to their end and the tally
\* output is the placeholder table: titles and header rows of the two races
C25_PlaceholderTally ==
  (Settled /\ NoCountableVote) => IsPlaceholder(tally)

\* a ledger with rows, none countable, one of them with a filled ballot
C25_Witness ==
  /\ Settled /\ NoCountableVote
  /\ \E k \in 1..Len(val) : ContentNonBlank(val[k].ts)
  /\ IsPlaceholder(tally)

\* no response at all
C25_NoResponse ==
  (Settled /\ Len(resp) = 0) => (val = <<>> /\ IsPlaceholder(tally))

-----------------------------------------------------------------------------
\* the candidates of a Borda table
TableNames(rows) == {rows[i].nome : i \in 1..Len(rows)}

\* the distinct names of the rankings of the countable votes
ObservedNames == UNION {NamesOf(RankingCells(ts)) : ts \in CountableTs}

\* the scorecard formula was evaluated over the ledger as it is now
ScorecardShown ==
  /\ probe.fn = "BORDA_SCORECARD_BY_COLNAME"
  /\ probe.valores = LedgerRankings
  /\ \A e \in ExecIds : ~InFlight(e)

ListConfigured == buildOfficialSet(probe.intervalo) # {}

\* C26: with an explicit candidate list, a ballot name that is not in the list
\* has no row in the Borda table (it earns nothing, no error is raised); with
\* no list, the candidates are exactly the distinct names of the countable
\* rankings, in the scorecard and in the table of generateApuracaoAutomatica
C26_CandidateUniverse ==
  /\ (ScorecardShown /\ ListConfigured) =>
        /\ TableNames(probe.out) = buildOfficialSet(probe.intervalo)
        /\ \A i \in 1..Len(probe.out) :
             probe.out[i].nome \notin ObservedNames => probe.out[i].pontos = 0
  /\ (ScorecardShown /\ ~ListConfigured) => TableNames(probe.out) = ObservedNames
  /\ Settled => TableNames(tally.exec) = ObservedNames

\* a countable ranking names a candidate the configured list leaves out
C26_Witness ==
  /\ ScorecardShown /\ ListConfigured
  /\ ObservedNames \ buildOfficialSet(probe.intervalo) # {}
  /\ \E i \in 1..Len(probe.out) : probe.out[i].pontos > 0

-----------------------------------------------------------------------------
\* C27: calculatePubKey returns the empty string, and does not throw, whenever
\* the private key or the master secret is empty or missing
C27_EmptyWithoutInputs ==
  ( /\ probe.fn = "calculatePubKey"
    /\ (probe.privKey \in {"", UndefinedKey} \/ probe.masterKey \in {"", UndefinedKey}) )
  => (probe.key = "" /\ probe.out = <<>>)

C27_Witness ==
  /\ probe.fn = "calculatePubKey"
  /\ probe.privKey = "s1" /\ probe.masterKey = UndefinedKey
  /\ probe.key = "" /\ probe.out = <<>>

\* the value of a hexadecimal digit 0-9a-f, 16 for any other character
HexValue(c) ==
  IF \E n \in 1..16 : HexDigits[n] = c
  THEN (CHOOSE n \in 1..16 : HexDigits[n] = c) - 1
  ELSE 16

\* the unsigned value of a byte of the digest
Unsigned(byte) == IF byte < 0 THEN byte + 256 ELSE byte

\* C28: for non-empty inputs calculatePubKey returns exactly 64 characters,
\* each in 0-9a-f: every one of the 32 digest bytes, the negative ones
\* included, is rendered as exactly two lowercase hex digits
C28_SixtyFourHexDigits ==
  ( /\ probe.fn = "calculatePubKey"
    /\ probe.privKey \notin {"", UndefinedKey}
    /\ probe.masterKey \notin {"", UndefinedKey} )
  => /\ Len(probe.out) = 64
     /\ \A i \in 1..Len(probe.out) : HexValue(probe.out[i]) < 16
     /\ \A i \in 1..Len(probe.signature) :
          16 * HexValue(probe.out[2 * i - 1]) + HexValue(probe.out[2 * i])
            = Unsigned(probe.signature[i])

\* a digest with negative bytes and with bytes below 16
C28_Witness ==
  /\ probe.fn = "calculatePubKey"
  /\ probe.privKey = "s1" /\ probe.masterKey = "K"
  /\ \E i, j \in 1..Len(probe.signature) :
       /\ probe.signature[i] = -128
       /\ probe.signature[j] \in 0..15
  /\ Len(probe.out) = 64

-----------------------------------------------------------------------------
\* the letters a-z and A-Z among the characters of the model
AsciiLetters == {"a", "b", "x"} \cup LettersAZ

IsAsciiLetter(c) == c \in AsciiLetters

AsciiUpper(c) ==
  CASE c = "a" -> "A" [] c = "b" -> "B" [] c = "x" -> "X" [] OTHER -> c

\* the letters of a text, in their order, in upper case
LettersUppercased(text) ==
  LET letters == SelectSeq(text, IsAsciiLetter)
  IN  [i \in 1..Len(letters) |-> AsciiUpper(letters[i])]

NormalizeShown == probe.fn = "normalizePrivate_"

C29_LettersOfUppercased ==
  NormalizeShown =>
    /\ probe.out = (IF probe.text = Undefined THEN <<>>
                    ELSE SelectSeq(upperText(probe.text), isAZ))
    /\ \A i \in 1..Len(probe.out) : probe.out[i] \in LettersAZ
    /\ normalizePrivate_(probe.out) = probe.out

\* C30: the race-2 text is split at commas, semicolons and newlines alike: the
\* same names written with any of the separators give the same ballot
C30_AnySeparator ==
  probe.fn = "parseVotos" => probe.out = probe.names

\* the names come out whenever the separator holds a comma
C30_CommaSeparated ==
  (probe.fn = "parseVotos" /\ probe.sep[1] = ",") => probe.out = probe.names

\* parseList, the parser of the sheet formulas, does take the three
\* separators alike
C30_ParseListAnySeparator ==
  probe.fn = "parseVotos" => probe.list = probe.names

-----------------------------------------------------------------------------
\* the credentials the validation treats as active: the ids whose registry
\* record getKeysMap reports active
ActiveCredentials ==
  Cardinality({id \in {normalizeId(keys[i].id) : i \in 1..Len(keys)} :
                 getKeysMap(keys, id).present /\ getKeysMap(keys, id).is_active})

StatisticsShown == probe.fn = "statistics"

\* C31: the cutoff statistic written with the tally is active_credentials x
\* configured_max_rank x 1/10, active_credentials being the registry records
\* the credential validation treats as active and configured_max_rank the
\* configured value (0 when the rank is inferred)
C31_CutoffStatistic ==
  StatisticsShown =>
    probe.out.notaDeCorteTenths = ActiveCredentials * (IF QTD > 0 THEN QTD ELSE 0)

\* the same where every is_active cell is written without padding
C31_UnpaddedFlags ==
  (StatisticsShown /\ \A i \in 1..Len(keys) : keys[i].act \in {"TRUE", "true", "FALSE"})
  => probe.out.notaDeCorteTenths = ActiveCredentials * (IF QTD > 0 THEN QTD ELSE 0)


\* C32: in the plurality table no candidate's vote count exceeds the number
\* of valid-countable ballots.
C32_VotesWithinBallots ==
  Settled =>
    \A r \in 1..Len(tally.fiscal) :
      tally.fiscal[r].votos <= Cardinality(CountableTs)

\* the part of C32 the code keeps: no countable ballot repeats a name in the
\* plurality race
C32_NoRepeatedName ==
  (Settled /\ \A ts \in CountableTs : ~HasRepeatedFiscalName(ts)) =>
    \A r \in 1..Len(tally.fiscal) :
      tally.fiscal[r].votos <= Cardinality(CountableTs)


\* what C33 follows of a ledger row: the submission and its three verdicts
VerdictsOf(r) == [ts |-> r.ts, cred |-> r.cred, contador |-> r.contador,
                  final |-> r.final]

LedgerPrefix(old, new) ==
  /\ Len(old) <= Len(new)
  /\ \A k \in 1..Len(old) : VerdictsOf(old[k]) = VerdictsOf(new[k])

\* C33: with the registry and the configuration unchanged, the ledger computed
\* after a new submission keeps the credential status, sequence number and
\* final status of every earlier submission: the ledger it replaces is a
\* prefix of it.
C33_LedgerPrefix ==
  [][\A e \in ExecIds :
       StepOf(e, "validation", "validationWrite") =>
         LedgerPrefix(val, ex'[e].results)]_vars

\* a second submission of a voter has been entered after the counted one
C33_Witness ==
  /\ Settled
  /\ Len(val) >= 2
  /\ val[1].final = APURACAO_STATUS
  /\ \E k \in 2..Len(val) : val[k].id = val[1].id /\ val[k].final = FS_DUPLICATE
  /\ \E k \in 2..Len(val) : val[k].cred # ST_VALID

-----------------------------------------------------------------------------
\* the status processResponse_ gives a submission: the error status when
\* getMasterKey throws, the classification of the recomputed key otherwise
processedStatus(keyData, privKey, mk) ==
  IF mk = "" THEN ST_ERROR ELSE classify(keyData, calculatePubKey(privKey, mk))

\* C34: full revalidation agrees with incremental validation: the status
\* revalidateAllVotes assigns to a response row is the one processResponse_
\* would assign to the row's original submission (id and raw secret) against
\* the same registry snapshot, whatever happened when the row was first
\* processed.
C34_RevalidateAsProcess ==
  \A c \in cls :
    c.by = "revalidate" => c.status = processedStatus(c.rec, c.secret, c.mk)

\* the part of C34 the code keeps: with a master key configured and the
\* handlers run one at a time
C34_WithMasterKey ==
  \A c \in cls :
    (c.by = "revalidate" /\ c.mk # "")
    => c.status = processedStatus(c.rec, c.secret, c.mk)

-----------------------------------------------------------------------------
\* the ledger is cleared and not yet rewritten by execution f
LedgerCleared(f) == ex[f].pc = "validationWrite"

\* C35: when executions of the handlers overlap, no tally is computed from a
\* ledger that another execution has cleared and not yet rewritten, and the
\* table left once every execution has finished is the tally of the final
\* ledger.
C35_TallyOfCompleteLedger ==
  /\ [][\A e \in ExecIds :
          StepOf(e, "tally", "tallyWrite") =>
            \A f \in ExecIds \ {e} : ~LedgerCleared(f)]_vars
  /\ [](Settled => tally = tallyOf(val, QTD))

-----------------------------------------------------------------------------
\* C36: revalidateAllVotes changes nothing but the credential-status cell of
\* each response row: timestamps, ids, key cells and ballot columns are the
\* same after its write, also when no header named 'Credenciais' is found.
C36_OnlyStatusCell ==
  [][\A e \in ExecIds :
       StepOf(e, "revalidateWrite", "validation") =>
         /\ Len(resp') = Len(resp)
         /\ \A i \in 1..Len(resp) :
              [resp'[i] EXCEPT !.cred = resp[i].cred] = resp[i]
         /\ keys' = keys /\ val' = val /\ tally' = tally]_vars

\* a revalidation that found no 'Credenciais' header has changed a status
C36_Witness ==
  /\ credCol = 0
  /\ \E e \in ExecIds : ex[e].pc = "validation" /\ ex[e].kind = "edit"
  /\ \E i \in 1..Len(resp) : resp[i].cred = ST_REVOKED

-----------------------------------------------------------------------------
\* C37: a submission whose secret is empty is never classified valid,
\* whatever the registry contains, an active record whose public-key cell is
\* blank included.
C37_EmptySecretNeverValid ==
  \A c \in cls : c.secret = "" => c.status # ST_VALID

\* the part of C37 the code keeps: against a record whose public-key cell is
\* not blank
C37_StoredKeyNotBlank ==
  \A c \in cls :
    (c.secret = "" /\ c.rec.pub_key # "") => c.status # ST_VALID

-----------------------------------------------------------------------------
\* the occurrences the Borda table shows at rank p, over all its candidates
OccurrencesAtRank(p) ==
  SumSeq([r \in 1..Len(tally.exec) |-> tally.exec[r].posCounts[p]])

\* C38: in the Borda table a candidate occupies at most one rank per ballot:
\* the occurrence counts of every rank summed over the candidates, and the
\* occurrence counts of every candidate summed over the ranks, are at most
\* the number of valid-countable ballots.
C38_OneRankPerBallot ==
  Settled =>
    /\ \A p \in 1..tally.npos : OccurrencesAtRank(p) <= Cardinality(CountableTs)
    /\ \A r \in 1..Len(tally.exec) :
         SumSeq(tally.exec[r].posCounts) <= Cardinality(CountableTs)

\* two ballots are counted, one of them names a candidate twice, and a
\* candidate is shown once for every counted ballot
C38_Witness ==
  /\ Settled
  /\ Cardinality(CountableTs) >= 2
  /\ tally.npos >= 2
  /\ \E ts \in CountableTs : HasRepeatedName(RankingCells(ts))
  /\ \E r \in 1..Len(tally.exec) :
       SumSeq(tally.exec[r].posCounts) = Cardinality(CountableTs)

====
